---------------------------- MODULE Spec2Model ----------------------------
(***************************************************************************)
(* A model of the six-cities command line tool (src/src/main.ts):          *)
(*   - TSVFileReader: read() and toArray(), the TSV line parser;           *)
(*   - HelpCommand, VersionCommand, ImportCommand: the three commands;     *)
(*   - CLIApplication: registerCommands, getCommand, parseCommand and      *)
(*     processCommand, the dispatcher.                                     *)
(* JavaScript strings are sequences of one-character strings, so that      *)
(* split, trim, startsWith and the === comparison are computed character   *)
(* by character.  A JavaScript value is a record [t, v] whose t is the     *)
(* type tag.  A call's result is a completion: it returns a value or it    *)
(* throws one.                                                             *)
(***************************************************************************)
EXTENDS Naturals, Sequences, FiniteSets

VARIABLES
    \* one TSVFileReader object and the calls made on it
    rawData,        \* TSVFileReader.rawData
    readSucceeded,  \* history: some read() on this reader has returned normally
    fileLines,      \* history: the lines (as field lists) of the file last read
    lastCall,       \* "none" | "read" | "toArray"
    outcome,        \* the completion of the last call on the reader
    \* one CLIApplication object and the calls made on it
    commands,       \* CLIApplication.commands
    firstRegistered,\* history: name -> the first command assigned under it
    regOutcome,     \* the completion of the last registerCommands call
    regList,        \* the list the last registerCommands call was given
    \* the last call of processCommand or of a command's execute
    lastOp,         \* "none" | "processCommand" | "import" | "version" | "help"
    argvIn,         \* the argv (or the parameters) the last call was given
    call,           \* what the call did: [executed, done], the execute calls
                    \* made and their events and completion
    fsImport,       \* history: the state of the import file during the call
    fsConfig        \* history: the state of the version config file

readerVars == <<rawData, readSucceeded, fileLines, lastCall, outcome>>
registryVars == <<commands, firstRegistered, regOutcome, regList>>
cliVars == <<lastOp, argvIn, call, fsImport, fsConfig>>
vars == <<readerVars, registryVars, cliVars>>

---------------------------------------------------------------------------
(* Bounds of the model *)

\* the most lines a modelled file holds
MaxLines == 2
\* the most tokens a modelled argv holds
MaxArgs == 3
\* the most commands one registerCommands call is given
MaxList == 2

---------------------------------------------------------------------------
(* JavaScript strings and values *)

TAB == "\t"
NL == "\n"
SP == " "
SEMI == ";"

\* the characters String.prototype.trim removes, among those of the model
Whitespace == {SP, TAB, NL, "\r"}

Str(s) == [t |-> "string", v |-> s]
Undefined == [t |-> "undefined", v |-> <<>>]
Num(n) == [t |-> "number", v |-> n]
NaN == [t |-> "NaN", v |-> 0]
Bool(b) == [t |-> "boolean", v |-> b]

\* completions
NoValue == [t |-> "none", v |-> <<>>]
Return(x) == [kind |-> "return", value |-> x]
Throw(x) == [kind |-> "throw", value |-> x]
\* an instance of Error (or of a subclass): error instanceof Error is true
ErrorObject(name, message) == [t |-> "Error", v |-> <<name, message>>]
IsError(x) == x.t = "Error"

\* String.prototype.split(sep) for a one-character separator: the pieces
\* between one occurrence of sep (or the start) and the next (or the end)
Split(s, sep) ==
    LET at == {i \in 1..Len(s) : s[i] = sep}
        n == Cardinality(at)
        \* the position of the k-th separator; 0 and Len(s) + 1 close the ends
        Cut(k) == IF k = 0 THEN 0
                  ELSE IF k = n + 1 THEN Len(s) + 1
                  ELSE CHOOSE i \in at : Cardinality({j \in at : j < i}) = k - 1
    IN  [k \in 1..(n + 1) |-> SubSeq(s, Cut(k - 1) + 1, Cut(k) - 1)]

RECURSIVE TrimStart(_)
TrimStart(s) ==
    IF s # <<>> /\ Head(s) \in Whitespace THEN TrimStart(Tail(s)) ELSE s

RECURSIVE TrimEnd(_)
TrimEnd(s) ==
    IF s # <<>> /\ s[Len(s)] \in Whitespace
    THEN TrimEnd(SubSeq(s, 1, Len(s) - 1)) ELSE s

\* String.prototype.trim
Trim(s) == TrimEnd(TrimStart(s))

\* String.prototype.startsWith
StartsWith(s, prefix) ==
    /\ Len(s) >= Len(prefix)
    /\ SubSeq(s, 1, Len(prefix)) = prefix

\* array destructuring: the element at position i, undefined past the end
Element(arr, i) == IF i <= Len(arr) THEN Str(arr[i]) ELSE Undefined

Digits == {"0", "1", "2", "3", "4", "5", "6", "7", "8", "9"}
DigitValue(c) == CHOOSE n \in 0..9 : <<"0", "1", "2", "3", "4", "5", "6", "7", "8", "9">>[n + 1] = c

\* the longest prefix of s made of digits
RECURSIVE DigitPrefix(_)
DigitPrefix(s) ==
    IF s # <<>> /\ Head(s) \in Digits THEN <<Head(s)>> \o DigitPrefix(Tail(s))
    ELSE <<>>

RECURSIVE Decimal(_, _)
Decimal(ds, acc) ==
    IF ds = <<>> THEN acc ELSE Decimal(Tail(ds), 10 * acc + DigitValue(Head(ds)))

\* Number.parseInt(x, 10) of a string without a sign: leading whitespace is
\* skipped, the digits that follow are the value, NaN when there is none
ParseInt(x) ==
    LET ds == DigitPrefix(TrimStart(x.v))
    IN  IF ds = <<>> THEN NaN ELSE Num(Decimal(ds, 0))

\* Number.parseFloat(x) of a string without sign or exponent: the value is
\* kept as <<integer part, fraction digits>>.  parseFloat(undefined) is NaN.
ParseFloat(x) ==
    LET s == TrimStart(x.v)
        ip == DigitPrefix(s)
        rest == SubSeq(s, Len(ip) + 1, Len(s))
        fp == IF rest # <<>> /\ Head(rest) = "." THEN DigitPrefix(Tail(rest))
              ELSE <<>>
    IN  IF x.t # "string" \/ (ip = <<>> /\ fp = <<>>) THEN NaN
        ELSE Num(<<Decimal(ip, 0), fp>>)

\* new Date(x) for the date-only form YYYY-MM-DD; any other text of the
\* model's alphabet (it holds no other date form) is an Invalid Date
InvalidDate == [t |-> "Date", v |-> <<>>]
NewDate(x) ==
    LET parts == Split(x.v, "-")
        IsNumber(p, n) == Len(p) = n /\ \A i \in 1..n : p[i] \in Digits
    IN  IF /\ Len(parts) = 3
           /\ IsNumber(parts[1], 4) /\ IsNumber(parts[2], 2) /\ IsNumber(parts[3], 2)
           /\ Decimal(parts[2], 0) \in 1..12 /\ Decimal(parts[3], 0) \in 1..28
        THEN [t |-> "Date",
              v |-> <<Decimal(parts[1], 0), Decimal(parts[2], 0), Decimal(parts[3], 0)>>]
        ELSE InvalidDate


---------------------------------------------------------------------------
(* TSVFileReader *)

\* node:fs readFileSync on a file [exists, content]: the text, or the
\* system error (an Error) of a missing or unreadable file
ReadFileSync(file) ==
    IF file.exists THEN Return(Str(file.content))
    ELSE Throw(ErrorObject("Error", "ENOENT: no such file or directory"))

\* the error toArray throws on falsy rawData
NotReadError == ErrorObject("Error", "File was not read")
\* the error of calling .split on undefined
SplitOfUndefined ==
    ErrorObject("TypeError", "Cannot read properties of undefined (reading 'split')")

TrueLiteral == <<"t", "r", "u", "e">>

\* a slip of IsTrueLiteral: the comparison ignores the case of the letters
IsTrueAnyCase(x) ==
    Bool(Len(x.v) = 4 /\ x.v[1] \in {"t", "T"} /\ x.v[2] \in {"r", "R"}
                      /\ x.v[3] \in {"u", "U"} /\ x.v[4] \in {"e", "E"})

\* x === 'true'
IsTrueLiteral(x) == Bool(x = Str(TrueLiteral))

\* .filter((row) => row.trim().length > 0)
RECURSIVE NonEmptyRows(_)
NonEmptyRows(rows) ==
    IF rows = <<>> THEN <<>>
    ELSE IF Len(Trim(Head(rows))) > 0
         THEN <<Head(rows)>> \o NonEmptyRows(Tail(rows))
    ELSE NonEmptyRows(Tail(rows))

\* .map((line) => line.split('\t'))
SplitRows(rows) == [k \in 1..Len(rows) |-> Split(rows[k], TAB)]

\* the strings of an array as JavaScript values
Strings(arr) == [k \in 1..Len(arr) |-> Str(arr[k])]

\* the object literal the second map callback returns
OfferLiteral(f, authorParts, locationParts) ==
    [title |-> Element(f, 1),
     description |-> Element(f, 2),
     postDate |-> NewDate(Element(f, 3)),
     city |-> Element(f, 4),
     previewImage |-> Element(f, 5),
     images |-> Strings(Split(Element(f, 6).v, SEMI)),
     isPremium |-> IsTrueLiteral(Element(f, 7)),
     isFavorite |-> IsTrueLiteral(Element(f, 8)),
     rating |-> ParseFloat(Element(f, 9)),
     type |-> Element(f, 10),
     bedrooms |-> ParseInt(Element(f, 11)),
     maxGuests |-> ParseInt(Element(f, 12)),
     price |-> ParseInt(Element(f, 13)),
     amenities |-> Strings(Split(Element(f, 14).v, SEMI)),
     author |-> [name |-> Element(authorParts, 1),
                 email |-> Element(authorParts, 2),
                 avatarUrl |-> Element(authorParts, 3),
                 password |-> Element(authorParts, 4),
                 type |-> Element(authorParts, 5)],
     commentCount |-> ParseInt(Element(f, 16)),
     location |-> [latitude |-> ParseFloat(Element(locationParts, 1)),
                   longitude |-> ParseFloat(Element(locationParts, 2))]]

\* the second map callback: author.split and location.split run first, then
\* the literal is built, images.split before amenities.split; a .split on a
\* destructured field that is undefined throws a TypeError
DecodeOffer(f) ==
    IF Element(f, 15).t = "undefined" THEN Throw(SplitOfUndefined)
    ELSE IF Element(f, 17).t = "undefined" THEN Throw(SplitOfUndefined)
    ELSE IF Element(f, 6).t = "undefined" THEN Throw(SplitOfUndefined)
    ELSE IF Element(f, 14).t = "undefined" THEN Throw(SplitOfUndefined)
    ELSE Return(OfferLiteral(f, Split(Element(f, 15).v, SEMI),
                             Split(Element(f, 17).v, SEMI)))

\* Array.prototype.map with the callback above: the first throw ends it
RECURSIVE MapOffers(_)
MapOffers(rows) ==
    IF rows = <<>> THEN Return(<<>>)
    ELSE LET first == DecodeOffer(Head(rows))
         IN  IF first.kind = "throw" THEN first
             ELSE LET rest == MapOffers(Tail(rows))
                  IN  IF rest.kind = "throw" THEN rest
                      ELSE Return(<<first.value>> \o rest.value)

\* TSVFileReader.toArray on a reader whose rawData is raw
ToArray(raw) ==
    IF raw = <<>> THEN Throw(NotReadError)
    ELSE MapOffers(SplitRows(NonEmptyRows(Split(raw, NL))))

---------------------------------------------------------------------------
(* The files the reader is given *)

RECURSIVE Join(_, _)
\* the parts written one after the other with sep between them
Join(parts, sep) ==
    IF parts = <<>> THEN <<>>
    ELSE IF Len(parts) = 1 THEN Head(parts)
    ELSE Head(parts) \o <<sep>> \o Join(Tail(parts), sep)

\* a well-formed line of 17 fields whose isPremium and isFavorite texts are
\* premium and favorite
FullLine(premium, favorite) ==
    << <<"L">>, <<"N">>,
       <<"2", "0", "2", "3", "-", "0", "1", "-", "0", "1">>,
       <<"P">>, <<"i">>, <<"a", ";", "b">>,
       premium, favorite,
       <<"4", ".", "5">>, <<"r">>, <<"2">>, <<"4">>, <<"1", "0", "0">>,
       <<"W", ";", "T">>,
       <<"J", ";", "m", ";", "u", ";", "p", ";", "o">>,
       <<"3">>,
       <<"4", ".", "5", ";", "2", ".", "3">> >>

\* a line of 17 fields none of which decodes: no date, no number, an author
\* of one part, a location of one part
GarbageLine == [k \in 1..17 |-> <<"x">>]

\* the isPremium and isFavorite texts of the well-formed lines
BooleanTexts ==
    { <<TrueLiteral, <<"T", "r", "u", "e">> >>,
      << <<"T", "R", "U", "E">>, <<"1">> >>,
      << <<>>, TrueLiteral>> }

FullLines == {FullLine(b[1], b[2]) : b \in BooleanTexts} \cup {GarbageLine}

\* lines with fewer than 17 fields: the first n fields of a well-formed line
ShortLines == {SubSeq(FullLine(TrueLiteral, TrueLiteral), 1, n) : n \in {1, 16}}

\* lines that are empty or hold only whitespace
BlankLines == { << <<>> >>, << <<SP>>, <<>> >> }

LineSet == FullLines \cup ShortLines \cup BlankLines

LineLists == UNION {[1..n -> LineSet] : n \in 1..MaxLines}

\* the text of a file whose lines are the given field lists
Content(lines) == Join([k \in 1..Len(lines) |-> Join(lines[k], TAB)], NL)

MissingFile == [exists |-> FALSE, lines |-> <<>>, content |-> <<>>]
Files == {[exists |-> TRUE, lines |-> ls, content |-> Content(ls)] : ls \in LineLists}
             \cup {MissingFile}

---------------------------------------------------------------------------
(* The calls on a TSVFileReader *)

ReaderInit ==
    /\ rawData = <<>>
    /\ readSucceeded = FALSE
    /\ fileLines = <<>>
    /\ lastCall = "none"
    /\ outcome = Return(Undefined)

\* TSVFileReader.read: rawData is assigned only when readFileSync returned
Read ==
    \E file \in Files :
        LET r == ReadFileSync(file)
        IN  /\ lastCall' = "read"
            /\ IF r.kind = "return"
               THEN /\ rawData' = r.value.v
                    /\ readSucceeded' = TRUE
                    /\ fileLines' = file.lines
                    /\ outcome' = Return(Undefined)
               ELSE /\ outcome' = r
                    /\ UNCHANGED <<rawData, readSucceeded, fileLines>>
            /\ UNCHANGED <<registryVars, cliVars>>

\* TSVFileReader.toArray
ToArrayCall ==
    /\ lastCall' = "toArray"
    /\ outcome' = ToArray(rawData)
    /\ UNCHANGED <<rawData, readSucceeded, fileLines, registryVars, cliVars>>

---------------------------------------------------------------------------
(* Commands *)

HelpName == <<"-", "-", "h", "e", "l", "p">>
VersionName == <<"-", "-", "v", "e", "r", "s", "i", "o", "n">>
ImportName == <<"-", "-", "i", "m", "p", "o", "r", "t">>
\* the property name through which an object's prototype is read and set
ProtoName == <<"_", "_", "p", "r", "o", "t", "o", "_", "_">>

\* a Command object: an instance n of one of the three classes, or of some
\* other implementation of the Command interface whose getName returns name
CommandObject(class, n, name) == [t |-> "object", v |-> <<class, n, name>>]
HelpCommand == CommandObject("HelpCommand", 1, HelpName)
VersionCommand == CommandObject("VersionCommand", 1, VersionName)
ImportCommand == CommandObject("ImportCommand", 1, ImportName)

ClassOf(command) == command.v[1]
\* Command.getName
GetName(command) == command.v[3]

\* console.log and console.info write to standard output, console.error to
\* the error channel
Out(what) == [ch |-> "stdout", what |-> what]
Err(what) == [ch |-> "stderr", what |-> what]
\* the file read and the parse a command performs, as events of its trace
FileEvent(what) == [ch |-> "fs", what |-> what]
ParseEvent(what) == [ch |-> "parse", what |-> what]

\* what a call did: its events in order and its completion
Done(events, completion) == [trace |-> events, completion |-> completion]

\* HelpCommand.execute
HelpExecute == Done(<<Out("usage text")>>, Return(Undefined))

\* The version config file: missing, or a text that JSON.parse rejects, or
\* a text that parses to a value
JsonNull == [t |-> "null", v |-> <<>>]
JsonArray == [t |-> "array", v |-> <<>>]
\* an object with the given own properties
JsonObject(props) == [t |-> "object", v |-> props]
ConfigFiles ==
    { [exists |-> FALSE, parses |-> FALSE, value |-> Undefined],
      [exists |-> TRUE, parses |-> FALSE, value |-> Undefined],
      [exists |-> TRUE, parses |-> TRUE, value |-> JsonNull],
      [exists |-> TRUE, parses |-> TRUE, value |-> JsonArray],
      [exists |-> TRUE, parses |-> TRUE, value |-> Str(<<"7">>)],
      [exists |-> TRUE, parses |-> TRUE, value |-> JsonObject([name |-> Str(<<"s">>)])],
      [exists |-> TRUE, parses |-> TRUE,
       value |-> JsonObject([name |-> Str(<<"s">>), version |-> Str(<<"7">>)])] }

\* isPackageJSONConfig
IsPackageJSONConfig(value) ==
    /\ value.t \in {"object", "array", "null"}      \* typeof value === 'object'
    /\ value.t # "null"
    /\ value.t # "array"
    /\ "version" \in DOMAIN value.v

\* VersionCommand.readVersion
ReadVersion(config) ==
    IF ~config.exists
    THEN Throw(ErrorObject("Error", "ENOENT: no such file or directory"))
    ELSE IF ~config.parses
    THEN Throw(ErrorObject("SyntaxError", "Unexpected token"))
    ELSE IF ~IsPackageJSONConfig(config.value)
    THEN Throw(ErrorObject("Error", "Failed to parse json content."))
    ELSE Return(config.value.v.version)

\* the catch block of VersionCommand.execute
VersionCatch(error) ==
    Done(<<Err("Failed to read version")>>
             \o (IF IsError(error) THEN <<Err(error.v[2])>> ELSE <<>>),
         Return(Undefined))

\* VersionCommand.execute
VersionExecute(config) ==
    LET r == ReadVersion(config)
    IN  IF r.kind = "return" THEN Done(<<Out(r.value)>>, Return(Undefined))
        ELSE VersionCatch(r.value)

\* a slip of ImportCatch: every caught value is thrown again
ImportRethrow(error) == Done(<<>>, Throw(error))

\* the catch block of ImportCommand.execute
ImportCatch(error) ==
    IF ~IsError(error) THEN Done(<<>>, Throw(error))
    ELSE Done(<<Err("Can't import data from file"), Err(error.v[2])>>,
              Return(Undefined))

\* the file readFileSync finds under a path: no file has the empty path
FileAt(path, file) == IF path = <<>> THEN MissingFile ELSE file

\* the events of a call after the events before
After(before, done) == Done(before \o done.trace, done.completion)

\* ImportCommand.execute from console.log(fileReader.toArray()) on
ImportParsed(parsed) ==
    IF parsed.kind = "throw"
    THEN After(<<FileEvent("read"), ParseEvent("toArray failed")>>,
               ImportCatch(parsed.value))
    ELSE Done(<<FileEvent("read"), ParseEvent("toArray"), Out(parsed.value)>>,
              Return(Undefined))

\* ImportCommand.execute from fileReader.read() on
ImportRead(read) ==
    IF read.kind = "throw"
    THEN After(<<FileEvent("read failed")>>, ImportCatch(read.value))
    ELSE ImportParsed(ToArray(read.value.v))

\* a slip of ImportExecute: the check of the file name is missing
ImportUnchecked(parameters, file) ==
    ImportRead(ReadFileSync(FileAt(Trim(Element(parameters, 1).v), file)))

\* ImportCommand.execute: file is the state of the file system under the
\* path that is asked for
ImportExecute(parameters, file) ==
    IF Element(parameters, 1).t = "undefined" \/ Element(parameters, 1).v = <<>>
    THEN Done(<<Err("Please provide path to file")>>, Return(Undefined))
    ELSE ImportRead(ReadFileSync(FileAt(Trim(Element(parameters, 1).v), file)))

\* command.execute(...parameters), by the class of the command; calling
\* execute on a value that is no command is a TypeError
Execute(command, parameters, file, config) ==
    IF command.t # "object"
    THEN Done(<<>>, Throw(ErrorObject("TypeError", "Cannot read properties of undefined")))
    ELSE CASE ClassOf(command) = "HelpCommand" -> HelpExecute
           [] ClassOf(command) = "VersionCommand" -> VersionExecute(config)
           [] ClassOf(command) = "ImportCommand" -> ImportExecute(parameters, file)
           [] OTHER -> Done(<<>>, Return(Undefined))

---------------------------------------------------------------------------
(* CLIApplication *)

\* the prototype of an object literal
ObjectPrototype == [t |-> "object", v |-> <<"Object.prototype">>]

\* CLIApplication.commands = {}: an object literal has no own property and
\* Object.prototype as its prototype.  own maps the own property names to
\* their values.
EmptyObject == [own |-> <<>>, proto |-> ObjectPrototype]

\* Object.prototype.hasOwnProperty.call(obj, key)
HasOwnProperty(obj, key) ==
    \E k \in 1..Len(obj.own) : obj.own[k][1] = key

\* obj[key]: an own property; else __proto__, the accessor every object
\* inherits, gives the prototype; else undefined (the names of the model are
\* no property names of Object.prototype or of the command classes)
Get(obj, key) ==
    IF HasOwnProperty(obj, key)
    THEN (obj.own[CHOOSE k \in 1..Len(obj.own) : obj.own[k][1] = key])[2]
    ELSE IF key = ProtoName THEN obj.proto
    ELSE Undefined

\* obj[key] = value, for a value that is an object: assigning __proto__ runs
\* the inherited setter, which replaces the prototype and creates no own
\* property; any other name becomes or stays an own property, a new one last
\* in the property order
SetProperty(obj, key, value) ==
    IF key = ProtoName THEN [obj EXCEPT !.proto = value]
    ELSE IF HasOwnProperty(obj, key)
    THEN [obj EXCEPT !.own =
              [k \in 1..Len(obj.own) |->
                  IF obj.own[k][1] = key THEN <<key, value>> ELSE obj.own[k]]]
    ELSE [obj EXCEPT !.own = Append(obj.own, <<key, value>>)]

\* CLIApplication.defaultCommand
DefaultCommand == HelpName

AlreadyRegistered == ErrorObject("Error", "Command is already registered")

\* CLIApplication.registerCommands from the k-th command of the list on:
\* the registry it leaves, the commands it assigned and its completion
RECURSIVE RegisterFrom(_, _, _, _)
RegisterFrom(obj, commandList, k, assigned) ==
    IF k > Len(commandList)
    THEN [commands |-> obj, assigned |-> assigned, completion |-> Return(Undefined)]
    ELSE IF HasOwnProperty(obj, GetName(commandList[k]))
    THEN [commands |-> obj, assigned |-> assigned, completion |-> Throw(AlreadyRegistered)]
    ELSE RegisterFrom(SetProperty(obj, GetName(commandList[k]), commandList[k]),
                      commandList, k + 1, Append(assigned, commandList[k]))

RegisterCommandsOn(obj, commandList) == RegisterFrom(obj, commandList, 1, <<>>)

\* x ?? y
Nullish(x) == x.t \in {"undefined", "null"}

\* CLIApplication.getCommand
GetCommand(registry, commandName) ==
    IF Nullish(Get(registry, commandName)) THEN Get(registry, DefaultCommand)
    ELSE Get(registry, commandName)

FlagPrefix == <<"-", "-">>

\* a slip of OpenBucket: the bucket of a flag seen before is kept
KeepBucket(result, argument) ==
    IF \E k \in 1..Len(result) : result[k][1] = argument THEN result
    ELSE Append(result, <<argument, <<>> >>)

\* result[argument] = [] on the record parseCommand builds: a new key is
\* added last, an existing key keeps its place and gets the new empty array
OpenBucket(result, argument) ==
    IF \E k \in 1..Len(result) : result[k][1] = argument
    THEN [k \in 1..Len(result) |->
             IF result[k][1] = argument THEN <<argument, <<>> >> ELSE result[k]]
    ELSE Append(result, <<argument, <<>> >>)

\* result[currentCommand].push(argument)
PushArgument(result, currentCommand, argument) ==
    [k \in 1..Len(result) |->
        IF result[k][1] = currentCommand
        THEN <<currentCommand, Append(result[k][2], argument)>> ELSE result[k]]

\* CLIApplication.parseCommand from the k-th argument on
RECURSIVE ParseFrom(_, _, _, _)
ParseFrom(cliArguments, k, result, currentCommand) ==
    IF k > Len(cliArguments) THEN result
    ELSE IF StartsWith(cliArguments[k], FlagPrefix)
    THEN ParseFrom(cliArguments, k + 1, OpenBucket(result, cliArguments[k]),
                   cliArguments[k])
    ELSE IF currentCommand # <<>> /\ cliArguments[k] # <<>>
    THEN ParseFrom(cliArguments, k + 1,
                   PushArgument(result, currentCommand, cliArguments[k]),
                   currentCommand)
    ELSE ParseFrom(cliArguments, k + 1, result, currentCommand)

ParseCommand(cliArguments) == ParseFrom(cliArguments, 1, <<>>, <<>>)

\* Object.keys(parsedCommand): the keys all start with "--", none is an
\* integer index, so they come in the order they were first assigned
ObjectKeys(result) == [k \in 1..Len(result) |-> result[k][1]]

\* a slip of FirstKey: the key of the last flag
LastKey(result) ==
    IF result = <<>> THEN Undefined ELSE Str(ObjectKeys(result)[Len(result)])

\* const [commandName] = Object.keys(parsedCommand)
FirstKey(result) == Element(ObjectKeys(result), 1)

\* parsedCommand[commandName] ?? []
CommandArguments(result, commandName) ==
    IF \E k \in 1..Len(result) : result[k][1] = commandName
    THEN (result[CHOOSE k \in 1..Len(result) : result[k][1] = commandName])[2]
    ELSE <<>>

\* one call command.execute(...parameters) and what it did
Call(command, parameters, file, config) ==
    [executed |-> <<[cmd |-> command, args |-> parameters]>>,
     done |-> Execute(command, parameters, file, config)]

\* the name processCommand looks up and the arguments it passes: the default
\* command without arguments when the parsed record has no first key
Selected(parsedCommand, commandName) ==
    IF commandName.t = "undefined" \/ commandName.v = <<>>
    THEN [name |-> DefaultCommand, args |-> <<>>]
    ELSE [name |-> commandName.v,
          args |-> CommandArguments(parsedCommand, commandName.v)]

\* the call processCommand makes for a parsed record
Dispatch(registry, selected, file, config) ==
    Call(GetCommand(registry, selected.name), selected.args, file, config)

\* CLIApplication.processCommand
ProcessCommandOn(registry, argv, file, config) ==
    Dispatch(registry, Selected(ParseCommand(argv), FirstKey(ParseCommand(argv))),
             file, config)

---------------------------------------------------------------------------
(* The calls on a CLIApplication *)

\* another HelpCommand object, and two commands of another implementation
\* of the Command interface that share a name
OtherHelpCommand == CommandObject("HelpCommand", 2, HelpName)
CustomCommands == {CommandObject("CustomCommand", n, ProtoName) : n \in 1..2}

CommandPool == {HelpCommand, OtherHelpCommand, VersionCommand} \cup CustomCommands
CommandLists == UNION {[1..n -> CommandPool] : n \in 0..MaxList}

BootstrapList == <<HelpCommand, VersionCommand, ImportCommand>>

\* the history of first assignments after the commands of assigned
RECURSIVE RecordFirst(_, _)
RecordFirst(first, assigned) ==
    IF assigned = <<>> THEN first
    ELSE RecordFirst(
             IF GetName(Head(assigned)) \in DOMAIN first THEN first
             ELSE [n \in DOMAIN first \cup {GetName(Head(assigned))} |->
                      IF n \in DOMAIN first THEN first[n] ELSE Head(assigned)],
             Tail(assigned))

NoNames == [n \in {} |-> Undefined]

RegistryInit ==
    /\ commands = EmptyObject
    /\ firstRegistered = NoNames
    /\ regOutcome = Return(Undefined)
    /\ regList = <<>>

CallInit ==
    /\ lastOp = "none"
    /\ argvIn = <<>>
    /\ call = [executed |-> <<>>, done |-> Done(<<>>, Return(Undefined))]
    /\ fsImport = MissingFile
    /\ fsConfig = CHOOSE c \in ConfigFiles : ~c.exists

Init == ReaderInit /\ RegistryInit /\ CallInit

\* CLIApplication.registerCommands(commandList)
Register(commandList) ==
    LET r == RegisterCommandsOn(commands, commandList)
    IN  /\ commands' = r.commands
        /\ regOutcome' = r.completion
        /\ regList' = commandList
        /\ firstRegistered' = RecordFirst(firstRegistered, r.assigned)

RegisterCommands ==
    /\ \E commandList \in CommandLists : Register(commandList)
    /\ UNCHANGED <<readerVars, cliVars>>

\* bootstrap, its first statement: the three commands are registered on the
\* new application
BootstrapRegister ==
    /\ regList = <<>>
    /\ Register(BootstrapList)
    /\ UNCHANGED <<readerVars, cliVars>>

\* the tokens of an argv: the three command names, a flag that names no
\* command, two plain tokens and the empty string
FileToken == <<"x", ".", "t", "s", "v">>
FooToken == <<"f", "o", "o">>
Tokens == {ImportName, VersionName, HelpName, <<"-", "-", "o">>, FileToken, FooToken, <<>>}
Argvs == UNION {[1..n -> Tokens] : n \in 0..MaxArgs}
ParameterLists == UNION {[1..n -> {<<"x">>, <<SP, "x">>, <<SP>>, <<>>}] : n \in 0..MaxArgs}

\* the states the import file is seen in: missing, or one line of any kind
ImportFiles ==
    {MissingFile} \cup {f \in Files : f.exists /\ Len(f.lines) = 1}

\* the execute calls the last call made, its events, and the value that
\* propagated out of it (NoValue when it returned)
executed == call.executed
trace == call.done.trace
raised == IF call.done.completion.kind = "throw" THEN call.done.completion.value
          ELSE NoValue

\* bootstrap, its second statement: processCommand(process.argv), once in a
\* run of the program
ProcessCommand ==
    /\ regList = BootstrapList
    /\ lastOp = "none"
    /\ \E argv \in Argvs, file \in ImportFiles, config \in ConfigFiles :
           /\ lastOp' = "processCommand"
           /\ argvIn' = argv
           /\ call' = ProcessCommandOn(commands, argv, file, config)
           /\ fsImport' = file
           /\ fsConfig' = config
    /\ UNCHANGED <<readerVars, registryVars>>

\* a call of one command's execute
Direct(op, command, parameters, file, config) ==
    /\ lastOp' = op
    /\ argvIn' = parameters
    /\ call' = Call(command, parameters, file, config)
    /\ fsImport' = file
    /\ fsConfig' = config

\* ImportCommand.execute(...parameters)
ExecuteImport ==
    /\ lastOp = "none"
    /\ \E parameters \in ParameterLists, file \in ImportFiles :
           Direct("import", ImportCommand, parameters, file, fsConfig)
    /\ UNCHANGED <<readerVars, registryVars>>

\* VersionCommand.execute()
ExecuteVersion ==
    /\ lastOp = "none"
    /\ \E config \in ConfigFiles :
           Direct("version", VersionCommand, <<>>, fsImport, config)
    /\ UNCHANGED <<readerVars, registryVars>>

\* HelpCommand.execute()
ExecuteHelp ==
    /\ lastOp = "none"
    /\ Direct("help", HelpCommand, <<>>, fsImport, fsConfig)
    /\ UNCHANGED <<readerVars, registryVars>>

\* a run of the program, and the calls of the commands' execute
Next == BootstrapRegister \/ ProcessCommand \/ ExecuteImport \/ ExecuteVersion \/ ExecuteHelp
Spec == Init /\ [][Next]_vars

\* a TSVFileReader and the calls on it
NextReader == Read \/ ToArrayCall
SpecReader == Init /\ [][NextReader]_vars

\* a CLIApplication and any calls of registerCommands
NextRegistry == RegisterCommands
SpecRegistry == Init /\ [][NextRegistry]_vars

---------------------------------------------------------------------------
(* What the claims speak of, stated on the inputs *)

\* a flag: a token that starts with "--"
IsFlag(token) == Len(token) >= 2 /\ token[1] = "-" /\ token[2] = "-"
FlagPositions(argv) == {i \in 1..Len(argv) : IsFlag(argv[i])}
Least(S) == CHOOSE m \in S : \A x \in S : m <= x
Greatest(S) == CHOOSE m \in S : \A x \in S : m >= x
FirstFlag(argv) == argv[Least(FlagPositions(argv))]

\* the elements of seq at the positions of S, in order
AtPositions(seq, S) ==
    LET Nth(k) == CHOOSE i \in S : Cardinality({j \in S : j < i}) = k - 1
    IN  [k \in 1..Cardinality(S) |-> seq[Nth(k)]]

\* the command bootstrap registers under a name
Bootstrapped(name) ==
    CASE name = HelpName -> HelpCommand
      [] name = VersionName -> VersionCommand
      [] name = ImportName -> ImportCommand

\* the command the first flag selects: the one registered under it, the
\* default (help) one when there is no flag or none is registered under it
SelectedByFirstFlag(argv) ==
    IF FlagPositions(argv) = {} THEN HelpCommand
    ELSE IF FirstFlag(argv) \in {HelpName, VersionName, ImportName}
    THEN Bootstrapped(FirstFlag(argv))
    ELSE HelpCommand

\* the commands that flags after the first one name
NamedByLaterFlags(argv) ==
    {Bootstrapped(argv[i]) : i \in
        {j \in FlagPositions(argv) :
            /\ j > Least(FlagPositions(argv))
            /\ argv[j] \in {HelpName, VersionName, ImportName}}}

ExecutedCommands == {executed[k].cmd : k \in 1..Len(executed)}

\* C1 as stated: processCommand executes exactly one command once, the one
\* the first flag selects (the default without a flag or for an unregistered
\* one), and never a command that a later flag names.
C1_NoLaterFlagCommandRuns ==
    lastOp = "processCommand" =>
        /\ Len(executed) = 1
        /\ executed[1].cmd = SelectedByFirstFlag(argvIn)
        /\ ExecutedCommands \cap NamedByLaterFlags(argvIn) = {}

\* C1 amended: processCommand executes exactly one command once, the one the
\* first flag selects (the default without a flag or for an unregistered
\* one); a command that a later flag names is never executed unless it is
\* also the command the first flag selects.
C1_FirstFlagSelects ==
    lastOp = "processCommand" =>
        /\ Len(executed) = 1
        /\ executed[1].cmd = SelectedByFirstFlag(argvIn)
        /\ ExecutedCommands \cap
               (NamedByLaterFlags(argvIn) \ {SelectedByFirstFlag(argvIn)}) = {}

\* C1 witness: import comes first, version later, and import alone ran
C1_Witness ==
    /\ lastOp = "processCommand"
    /\ argvIn = <<ImportName, FileToken, VersionName>>
    /\ ExecutedCommands = {ImportCommand}

\* the position of the flag a plain token follows most closely
FlagBefore(argv, i) == Greatest({j \in FlagPositions(argv) : j < i})

\* the plain tokens that follow a flag
AfterAFlag(argv) ==
    {i \in 1..Len(argv) :
        ~IsFlag(argv[i]) /\ \E j \in FlagPositions(argv) : j < i}

\* the tokens appended to the bucket of the first flag, as C2 states it:
\* every plain token whose most recently seen flag is that flag token
AppendedToFirstFlag(argv) ==
    {i \in AfterAFlag(argv) : argv[FlagBefore(argv, i)] = FirstFlag(argv)}

\* the tokens the bucket of the first flag holds when the scan ends: the
\* non-empty plain tokens that follow the last occurrence of that flag token
\* before any other flag
LeftInFirstBucket(argv) ==
    {i \in AfterAFlag(argv) :
        /\ argv[i] # <<>>
        /\ FlagBefore(argv, i) =
               Greatest({j \in FlagPositions(argv) : argv[j] = FirstFlag(argv)})}

ExamplesOfC2 ==
    /\ argvIn = <<ImportName, FileToken>> =>
           executed = <<[cmd |-> ImportCommand, args |-> <<FileToken>>]>>
    /\ argvIn = <<FooToken, VersionName>> =>
           executed = <<[cmd |-> VersionCommand, args |-> <<>>]>>

\* C2 as stated: the executed command receives every plain token that was
\* appended to the bucket of the first flag, each plain token going to the
\* bucket of the most recently seen flag; without a flag it receives nothing.
C2_AllAppendedTokensPassed ==
    lastOp = "processCommand" =>
        /\ Len(executed) = 1
        /\ executed[1].args =
               IF FlagPositions(argvIn) = {} THEN <<>>
               ELSE AtPositions(argvIn, AppendedToFirstFlag(argvIn))
        /\ ExamplesOfC2

\* C2 amended: every non-empty plain token is appended to the bucket of the
\* most recently seen flag, every occurrence of a flag opens an empty bucket
\* under its name in place of an earlier one, and the executed command
\* receives what the first flag's bucket holds at the end: the non-empty
\* plain tokens that follow the last occurrence of the first flag's token;
\* without a flag it receives nothing.
C2_FirstBucketPassed ==
    lastOp = "processCommand" =>
        /\ Len(executed) = 1
        /\ executed[1].args =
               IF FlagPositions(argvIn) = {} THEN <<>>
               ELSE AtPositions(argvIn, LeftInFirstBucket(argvIn))
        /\ ExamplesOfC2

\* C2 witness: the import flag comes twice, and the token between the two
\* is not passed
C2_Witness ==
    /\ lastOp = "processCommand"
    /\ argvIn = <<ImportName, FooToken, ImportName>>
    /\ executed = <<[cmd |-> ImportCommand, args |-> <<>>]>>

---------------------------------------------------------------------------
(* The commands' failures *)

\* a line that is empty or holds whitespace only
IsBlank(line) ==
    \A k \in 1..Len(line) : \A i \in 1..Len(line[k]) : line[k][i] \in Whitespace

\* the lines of a file that are kept: the ones that are not blank
Retained(lines) == SelectSeq(lines, LAMBDA line : ~IsBlank(line))

OnChannel(ch) == {k \in 1..Len(trace) : trace[k].ch = ch}

\* the last call ran the import command, without a file path or with one
ImportRan == executed # <<>> /\ executed[1].cmd = ImportCommand
WithoutPath == executed[1].args = <<>> \/ executed[1].args[1] = <<>>
\* the file under the path the import command was given
ImportedFile == FileAt(Trim(executed[1].args[1]), fsImport)

\* the failures of an import: the file is missing, or it is empty so that the
\* parse starts on data that count as not loaded, or a kept line is malformed
ImportFileMissing == ImportRan /\ ~WithoutPath /\ ~ImportedFile.exists
ImportFileEmpty ==
    ImportRan /\ ~WithoutPath /\ ImportedFile.exists /\ ImportedFile.content = <<>>
ImportLineMalformed ==
    /\ ImportRan /\ ~WithoutPath /\ ImportedFile.exists
    /\ \E k \in 1..Len(Retained(ImportedFile.lines)) :
           Len(Retained(ImportedFile.lines)[k]) < 17

\* the last call ran the version command on a config file that is missing,
\* unparsable or without a version
VersionRan == executed # <<>> /\ executed[1].cmd = VersionCommand
ConfigUnusable ==
    \/ ~fsConfig.exists
    \/ ~fsConfig.parses
    \/ fsConfig.value.t # "object"
    \/ "version" \notin DOMAIN fsConfig.value.v

\* C6: no call of processCommand or of a command's execute lets a value
\* propagate, whatever the argv and the files; a missing import file, a parse
\* of unloaded data, a malformed line and an unusable config file are
\* reported on the error channel instead.
C6_NothingPropagates ==
    lastOp # "none" =>
        /\ raised = NoValue
        /\ call.done.completion.kind = "return"
        /\ (ImportFileMissing \/ ImportFileEmpty \/ ImportLineMalformed) =>
               OnChannel("stderr") # {}
        /\ (VersionRan /\ ConfigUnusable) => OnChannel("stderr") # {}

\* C6 witness: processCommand ran import on a file with a malformed line,
\* which was reported
C6_Witness ==
    /\ lastOp = "processCommand"
    /\ ImportLineMalformed
    /\ OnChannel("stderr") # {}
    /\ raised = NoValue

\* C7: without a file path the import command reports the usage error and
\* neither reads nor parses; with one it reads first, parses only after a
\* read that succeeded, prints to standard output only when both succeeded,
\* and after a failure prints to the error channel only.
C7_ImportOrder ==
    ImportRan =>
        IF WithoutPath
        THEN trace = <<Err("Please provide path to file")>>
        ELSE /\ trace # <<>> /\ trace[1].ch = "fs"
             /\ OnChannel("fs") = {1}
             /\ OnChannel("parse") \subseteq {2}
             /\ OnChannel("parse") # {} => trace[1] = FileEvent("read")
             /\ OnChannel("stdout") # {} <=>
                    /\ ImportedFile.exists
                    /\ Len(trace) >= 2
                    /\ trace[1] = FileEvent("read")
                    /\ trace[2] = ParseEvent("toArray")
             /\ OnChannel("stdout") \subseteq {3}
             /\ OnChannel("stdout") = {} <=> OnChannel("stderr") # {}
             /\ (ImportFileMissing \/ ImportFileEmpty \/ ImportLineMalformed) =>
                    OnChannel("stdout") = {} /\ OnChannel("stderr") # {}

\* C7 witness: an import with a path read, parsed and printed one Offer
C7_Witness ==
    /\ lastOp = "processCommand"
    /\ ImportRan
    /\ ~WithoutPath
    /\ OnChannel("stdout") = {3}
    /\ Len(trace[3].what) = 1

---------------------------------------------------------------------------
(* The reader's claims *)

\* toArray was called after a read that succeeded; fileLines are then the
\* lines of the text in rawData
ParsedAfterRead == lastCall = "toArray" /\ readSucceeded
Kept == Retained(fileLines)

\* C3: after a successful read toArray returns one Offer for each line that
\* is not blank, in the order of the lines, the k-th Offer decoded from the
\* k-th such line; a file of blank lines only gives the empty sequence.
C3_OneOfferPerLine ==
    ParsedAfterRead =>
        /\ outcome.kind = "return"
        /\ Len(outcome.value) = Len(Kept)
        /\ \A k \in 1..Len(Kept) : Return(outcome.value[k]) = DecodeOffer(Kept[k])

\* the fields of a line from position n on, as the Offer holds them, are
\* missing values
MissingFrom(offer, n) ==
    /\ n <= 1 => offer.title = Undefined
    /\ n <= 2 => offer.description = Undefined
    /\ n <= 3 => offer.postDate = InvalidDate
    /\ n <= 4 => offer.city = Undefined
    /\ n <= 5 => offer.previewImage = Undefined
    /\ n <= 9 => offer.rating = NaN
    /\ n <= 10 => offer.type = Undefined
    /\ n <= 11 => offer.bedrooms = NaN
    /\ n <= 12 => offer.maxGuests = NaN
    /\ n <= 13 => offer.price = NaN

\* C4: a kept line with fewer than 17 fields raises no error: toArray still
\* returns an Offer for it, whose attributes of the missing fields are
\* missing values.
C4_ShortLineGivesOffer ==
    (ParsedAfterRead /\ rawData # <<>>) =>
        \A k \in 1..Len(Kept) :
            Len(Kept[k]) < 17 =>
                /\ outcome.kind = "return"
                /\ Len(outcome.value) = Len(Kept)
                /\ MissingFrom(outcome.value[k], Len(Kept[k]) + 1)

\* C5: toArray raises 'File was not read' exactly when no read has succeeded
\* on the reader before the call.
C5_StateErrorIffNoRead ==
    lastCall = "toArray" => (outcome = Throw(NotReadError) <=> ~readSucceeded)

\* C9: in every Offer toArray returns, isPremium and isFavorite are true
\* exactly when the text of field 7, respectively 8, of its line is "true".
C9_BooleansExact ==
    (lastCall = "toArray" /\ outcome.kind = "return") =>
        /\ Len(outcome.value) = Len(Kept)
        /\ \A k \in 1..Len(outcome.value) :
               /\ outcome.value[k].isPremium.t = "boolean"
               /\ outcome.value[k].isFavorite.t = "boolean"
               /\ outcome.value[k].isPremium.v <=> Kept[k][7] = <<"t", "r", "u", "e">>
               /\ outcome.value[k].isFavorite.v <=> Kept[k][8] = <<"t", "r", "u", "e">>

\* C9 witness: toArray returned an Offer of a line whose fields 7 and 8 are
\* "true" and "True"
C9_Witness ==
    /\ lastCall = "toArray"
    /\ outcome.kind = "return"
    /\ \E k \in 1..Len(outcome.value) :
           /\ Kept[k][7] = <<"t", "r", "u", "e">>
           /\ Kept[k][8] = <<"T", "r", "u", "e">>
           /\ outcome.value[k].isPremium = Bool(TRUE)
           /\ outcome.value[k].isFavorite = Bool(FALSE)

\* the attributes of the declared Offer type (types/entities.ts)
OfferShape ==
    {"title", "description", "postDate", "city", "previewImage", "images",
     "isPremium", "isFavorite", "rating", "type", "bedrooms", "maxGuests",
     "price", "amenities", "author", "location"}

\* C10: every Offer toArray returns has exactly the attributes of the
\* declared Offer type, and so no commentCount.
C10_DeclaredShapeOnly ==
    (lastCall = "toArray" /\ outcome.kind = "return") =>
        \A k \in 1..Len(outcome.value) : DOMAIN outcome.value[k] = OfferShape

---------------------------------------------------------------------------
(* The registry's claim *)

\* the names of the commands of a list
NamesOf(commandList) == {GetName(commandList[k]) : k \in 1..Len(commandList)}

\* C8: registerCommands raises whenever a command of the list has a name
\* that is registered already, by an earlier call or earlier in the list; so
\* a call that returns registered every command of its list as the first
\* under its name, every name maps to the first command registered under it,
\* and no registered command is replaced.
C8_DuplicateRaises ==
    /\ regOutcome.kind = "return" =>
           /\ Cardinality(NamesOf(regList)) = Len(regList)
           /\ \A k \in 1..Len(regList) :
                  firstRegistered[GetName(regList[k])] = regList[k]
    /\ \A name \in DOMAIN firstRegistered :
           Get(commands, name) = firstRegistered[name]

===========================================================================
